---- MODULE Spec2Model ----
(***************************************************************************)
(* network-journal: the report admission pipeline.                         *)
(*                                                                         *)
(*   processing/filter.rs      Filter (domain whitelist)                   *)
(*   processing/derivation.rs  analyze_user_agent, analyze_url             *)
(*   reports.rs                handle_report (the dispatcher)              *)
(*   reports/reporting_api.rs  batches of Reporting-API reports            *)
(*   reports/csp.rs            the /csp endpoint                           *)
(*   reports/smtp_tls.rs       the /tlsrpt endpoint                        *)
(*   reports/dmarc.rs, main.rs the IMAP poller of DMARC reports            *)
(*   reports/tls_cert_validity.rs  the certificate validity report         *)
(*                                                                         *)
(* Option<T> is a sequence of length 0 (None) or 1 (Some).                 *)
(***************************************************************************)
EXTENDS Integers, Sequences, FiniteSets, TLC

VARIABLES
    domain_whitelist,   \* FilterConfig.domain_whitelist: Vec<String>
    regexes,            \* the user-agent ruleset file on disk
    sink,               \* log lines written since the current request / cycle began
    call,               \* the last direct call of a pipeline function and its result
    http,               \* the HTTP request being served
    imap                \* the IMAP thread

vars == <<domain_whitelist, regexes, sink, call, http, imap>>

(***************************************************************************)
(* Bounds                                                                  *)
(***************************************************************************)
MaxBatch == 2           \* reports of one application/reports+json payload
MaxPolicies == 2        \* policies of one SMTP-TLS report
MaxMessages == 2        \* messages one IMAP search matches
MaxDistPoints == 2      \* CRL distribution points of one certificate

None == <<>>
Some(x) == <<x>>

RECURSIVE SeqsUpTo(_, _)
SeqsUpTo(S, n) ==
    IF n = 0 THEN {<<>>}
    ELSE LET shorter == SeqsUpTo(S, n - 1)
         IN  shorter \cup {Append(s, x) : s \in {t \in shorter : Len(t) = n - 1}, x \in S}

Range(s) == {s[i] : i \in 1..Len(s)}

(***************************************************************************)
(* Hosts and URLs                                                          *)
(***************************************************************************)
Hosts == {"a.com", "A.com", "b.com"}

\* ASCII lower-casing of a host, as the url crate applies it to the host of
\* a URL with a special scheme.
to_ascii_lowercase(h) == IF h = "A.com" THEN "a.com" ELSE h

SpecialSchemes == {"http", "https"}

\* The text of a URL, by its parts: "" as scheme is a text without a scheme
\* ("not a url"); authority is None when the text has no "//host" part.
Url(scheme, authority, path, query) ==
    [scheme |-> scheme, authority |-> authority, path |-> path, query |-> query]

NotAUrl   == Url("", None, "not a url", None)
MailtoUrl == Url("mailto", None, "ops@a.com", None)
UrlA      == Url("https", Some("a.com"), "/", None)
UrlUpperA == Url("https", Some("A.com"), "/", None)
UrlB      == Url("https", Some("b.com"), "/x", Some("q=1"))
EmptyHostUrl == Url("https", Some(""), "/", None)

Urls == {NotAUrl, MailtoUrl, UrlA, UrlUpperA, UrlB, EmptyHostUrl}

\* url::Url::parse, then host_str(), path(), query().
Url_parse(url) ==
    IF url.scheme = "" THEN [ok |-> FALSE, host |-> None, path |-> "", query |-> None]
    ELSE IF url.scheme \in SpecialSchemes
    THEN IF url.authority = None \/ url.authority = Some("")
         THEN [ok |-> FALSE, host |-> None, path |-> "", query |-> None]
         ELSE [ok |-> TRUE, host |-> Some(to_ascii_lowercase(url.authority[1])),
               path |-> url.path, query |-> url.query]
    ELSE [ok |-> TRUE, host |-> url.authority, path |-> url.path, query |-> url.query]

(***************************************************************************)
(* processing/filter.rs                                                    *)
(***************************************************************************)
\* Vec::contains: linear search with String equality.
RECURSIVE contains(_, _)
contains(vec, x) ==
    IF vec = <<>> THEN FALSE
    ELSE IF Head(vec) = x THEN TRUE
    ELSE contains(Tail(vec), x)

is_domain_allowed_ignore_case(whitelist, host) ==
    whitelist = <<>> \/ \E i \in 1..Len(whitelist) :
        to_ascii_lowercase(whitelist[i]) = to_ascii_lowercase(host)

is_domain_allowed(whitelist, host) ==
    whitelist = <<>> \/ contains(whitelist, host)

is_domain_of_url_allowed_open(whitelist, url) ==
    LET parsed_url == Url_parse(url)
    IN  IF parsed_url.ok /\ parsed_url.host # None
        THEN is_domain_allowed(whitelist, parsed_url.host[1])
        ELSE whitelist = <<>>

is_domain_of_url_allowed(whitelist, url) ==
    LET parsed_url == Url_parse(url)
    IN  IF parsed_url.ok /\ parsed_url.host # None
        THEN is_domain_allowed(whitelist, parsed_url.host[1])
        ELSE FALSE

(***************************************************************************)
(* processing/derivation.rs                                                *)
(***************************************************************************)
Client_default == [family |-> ""]
Device_default == [family |-> ""]
Url_default == [host |-> None, path |-> "", query |-> None]
Derived_default ==
    [client |-> Client_default, os |-> Client_default,
     device |-> Device_default, url |-> Url_default]

UserAgents == {"UA-X", "UA-Y"}

\* uaparser_rs::UAParser::parse on a loaded ruleset.
uap_parse(user_agent) ==
    IF user_agent = "UA-X"
    THEN [client |-> [family |-> "Firefox"], os |-> [family |-> "Linux"],
          device |-> [family |-> "Other"]]
    ELSE [client |-> [family |-> "Chrome"], os |-> [family |-> "Android"],
          device |-> [family |-> "Pixel"]]

RegexesStates == {"absent", "loadable", "unloadable"}

\* ok = FALSE is the panic of from_yaml(path).unwrap() on a file that exists
\* and does not load.
analyze_user_agent(file, user_agent) ==
    IF file # "absent"
    THEN IF file = "unloadable"
         THEN [ok |-> FALSE, client |-> Client_default, os |-> Client_default,
               device |-> Device_default]
         ELSE [ok |-> TRUE] @@ uap_parse(user_agent)
    ELSE [ok |-> TRUE, client |-> Client_default, os |-> Client_default,
          device |-> Device_default]

analyze_url(url) ==
    LET parsed_url == Url_parse(url)
    IN  [ok |-> parsed_url.ok,
         url |-> [host |-> parsed_url.host, path |-> parsed_url.path,
                  query |-> parsed_url.query]]

(***************************************************************************)
(* The four report shapes of reports.rs (enum ReportType)                  *)
(***************************************************************************)
ReportKinds ==
    {"coep", "coop", "crash", "csp-hash", "csp-violation", "deprecation",
     "integrity-violation", "intervention", "network-error",
     "permissions-policy-violation"}

OptUserAgents == {None} \cup {Some(ua) : ua \in UserAgents}

\* reporting_api::Report
ReportingApiReports ==
    [type : ReportKinds, age : {None, Some(42)}, url : Urls, user_agent : OptUserAgents]

ReportingAPI(rpt) == [shape |-> "ReportingAPI", rpt |-> rpt]
CSPLvl2(rpt)      == [shape |-> "CSPLvl2", rpt |-> rpt]
SMTPTLSRPT(rpt)   == [shape |-> "SMTPTLSRPT", rpt |-> rpt]
DMARC(rpt)        == [shape |-> "DMARC", rpt |-> rpt]

\* CSPReport { csp_report: CSPViolation { document_url, .. } }
CSPReports == [csp_report : [document_url : Urls]]

\* SMTPTLSReport { policies: Vec<PoliciesItem { policy: Policy { policy_domain, .. } }> }
PoliciesItems == [policy : [policy_domain : Hosts]]
SMTPTLSReports == [organization_name : {"Company-X"},
                   policies : SeqsUpTo(PoliciesItems, MaxPolicies)]

\* DMARCReport { report_metadata { org_name }, policy_published { domain }, .. }
DMARCReports == [report_metadata : [org_name : {"acme"}],
                 policy_published : [domain : Hosts]]

Reports ==
    {ReportingAPI(r) : r \in ReportingApiReports}
        \cup {CSPLvl2(r) : r \in CSPReports}
        \cup {SMTPTLSRPT(r) : r \in SMTPTLSReports}
        \cup {DMARC(r) : r \in DMARCReports}

\* SMTPTLSReport::get_policy_domains
RECURSIVE get_policy_domains_from(_)
get_policy_domains_from(policies) ==
    IF policies = <<>> THEN <<>>
    ELSE <<Head(policies).policy.policy_domain>> \o get_policy_domains_from(Tail(policies))

get_policy_domains(rpt) == get_policy_domains_from(rpt.policies)

get_published_policys_domain(rpt) == rpt.policy_published.domain

get_sender_organisation(rpt) == rpt.report_metadata.org_name

(***************************************************************************)
(* reports.rs: handle_report                                               *)
(***************************************************************************)
\* The label of the info! line of each reporting_api::ReportType variant.
ReportingApiLabel(type) ==
    CASE type = "coep" -> "COEP"
      [] type = "coop" -> "COOP"
      [] type = "crash" -> "Crash"
      [] type = "csp-hash" -> "CSP-Hash"
      [] type = "csp-violation" -> "CSP"
      [] type = "deprecation" -> "Decprecation"
      [] type = "integrity-violation" -> "IntegrityViolation"
      [] type = "intervention" -> "Intervention"
      [] type = "network-error" -> "NEL"
      [] type = "permissions-policy-violation" -> "PermissionsPolicyViolation"

Outcome(result, log) == [result |-> result, log |-> log]

Emit_twice(label, decorated, to_string_pretty_ok) ==
    LET line == [label |-> label, report |-> decorated.report,
                 derived |-> decorated.derived, by |-> "handle_report"]
    IN  IF to_string_pretty_ok THEN [result |-> "Ok", log |-> <<line, line>>]
        ELSE [result |-> "Err", log |-> <<>>]

Emit_swallowed(label, decorated, to_string_pretty_ok) ==
    [result |-> IF to_string_pretty_ok THEN "Ok" ELSE "Err", log |-> <<>>]

\* serde_json::to_string_pretty(&decorated).map(|s| info!("<label> {}", s)):
\* to_string_pretty_ok is what the serializer answers.
Emit(label, decorated, to_string_pretty_ok) ==
    IF to_string_pretty_ok
    THEN Outcome("Ok", <<[label |-> label, report |-> decorated.report,
                          derived |-> decorated.derived, by |-> "handle_report"]>>)
    ELSE Outcome("Err", <<>>)

WithUserAgent(derived, ua) ==
    [derived EXCEPT !.client = ua.client, !.os = ua.os, !.device = ua.device]

handle_report_ReportingAPI_no_filter(whitelist, file, decorated, rpt, to_string_pretty_ok) ==
    LET parsed_url == analyze_url(rpt.url)
        d1 == IF parsed_url.ok
              THEN [decorated.derived EXCEPT !.url = parsed_url.url]
              ELSE decorated.derived
        ua == IF rpt.user_agent # None
              THEN analyze_user_agent(file, rpt.user_agent[1])
              ELSE [ok |-> TRUE, client |-> d1.client, os |-> d1.os, device |-> d1.device]
    IN  IF ~ua.ok THEN Outcome("Panic", <<>>)
        ELSE Emit(ReportingApiLabel(rpt.type),
                  [decorated EXCEPT !.derived = WithUserAgent(d1, ua)],
                  to_string_pretty_ok)

handle_report_ReportingAPI_reject_is_error(whitelist, file, decorated, rpt, to_string_pretty_ok) ==
    IF is_domain_of_url_allowed(whitelist, rpt.url)
    THEN handle_report_ReportingAPI_no_filter(whitelist, file, decorated, rpt,
                                              to_string_pretty_ok)
    ELSE Outcome("Err", <<>>)

\* (a variant that keeps the enrichment of the transport's user agent when
\* there is one)
handle_report_ReportingAPI_transport_first(whitelist, file, decorated, rpt, to_string_pretty_ok) ==
    IF is_domain_of_url_allowed(whitelist, rpt.url)
    THEN LET parsed_url == analyze_url(rpt.url)
             d1 == IF parsed_url.ok
                   THEN [decorated.derived EXCEPT !.url = parsed_url.url]
                   ELSE decorated.derived
             ua == IF rpt.user_agent # None /\ d1.client = Client_default
                   THEN analyze_user_agent(file, rpt.user_agent[1])
                   ELSE [ok |-> TRUE, client |-> d1.client, os |-> d1.os,
                         device |-> d1.device]
         IN  IF ~ua.ok THEN Outcome("Panic", <<>>)
             ELSE Emit(ReportingApiLabel(rpt.type),
                       [decorated EXCEPT !.derived = WithUserAgent(d1, ua)],
                       to_string_pretty_ok)
    ELSE Outcome("Ok", <<>>)

handle_report_ReportingAPI(whitelist, file, decorated, rpt, to_string_pretty_ok) ==
    IF is_domain_of_url_allowed(whitelist, rpt.url)
    THEN LET parsed_url == analyze_url(rpt.url)
             d1 == IF parsed_url.ok
                   THEN [decorated.derived EXCEPT !.url = parsed_url.url]
                   ELSE decorated.derived
             ua == IF rpt.user_agent # None
                   THEN analyze_user_agent(file, rpt.user_agent[1])
                   ELSE [ok |-> TRUE, client |-> d1.client, os |-> d1.os,
                         device |-> d1.device]
         IN  IF ~ua.ok THEN Outcome("Panic", <<>>)
             ELSE Emit(ReportingApiLabel(rpt.type),
                       [decorated EXCEPT !.derived = WithUserAgent(d1, ua)],
                       to_string_pretty_ok)
    ELSE Outcome("Ok", <<>>)

handle_report_CSPLvl2(whitelist, decorated, rpt, to_string_pretty_ok) ==
    IF is_domain_of_url_allowed(whitelist, rpt.csp_report.document_url)
    THEN LET parsed_url == analyze_url(rpt.csp_report.document_url)
             d1 == IF parsed_url.ok
                   THEN [decorated.derived EXCEPT !.url = parsed_url.url]
                   ELSE decorated.derived
         IN  Emit("CSP", [decorated EXCEPT !.derived = d1], to_string_pretty_ok)
    ELSE Outcome("Ok", <<>>)

\* (a variant that asks the filter about every policy's domain)
handle_report_SMTPTLSRPT_every_policy(whitelist, decorated, rpt, to_string_pretty_ok) ==
    LET domains == get_policy_domains(rpt)
        host == IF domains = <<>> THEN None ELSE Some(domains[1])
        d1 == [decorated.derived EXCEPT !.url.host = host]
    IN  IF \E i \in 1..Len(domains) : ~is_domain_allowed(whitelist, domains[i])
        THEN Outcome("Ok", <<>>)
        ELSE Emit("SMTP-TLS-RPT", [decorated EXCEPT !.derived = d1], to_string_pretty_ok)

\* (a variant that drops a report without a policy domain)
handle_report_SMTPTLSRPT_fail_closed(whitelist, decorated, rpt, to_string_pretty_ok) ==
    LET domains == get_policy_domains(rpt)
        host == IF domains = <<>> THEN None ELSE Some(domains[1])
        d1 == [decorated.derived EXCEPT !.url.host = host]
    IN  IF host = None \/ ~is_domain_allowed(whitelist, host[1])
        THEN Outcome("Ok", <<>>)
        ELSE Emit("SMTP-TLS-RPT", [decorated EXCEPT !.derived = d1], to_string_pretty_ok)

handle_report_SMTPTLSRPT(whitelist, decorated, rpt, to_string_pretty_ok) ==
    LET domains == get_policy_domains(rpt)
        host == IF domains = <<>> THEN None ELSE Some(domains[1])
        d1 == [decorated.derived EXCEPT !.url.host = host]
    IN  IF host # None /\ ~is_domain_allowed(whitelist, host[1])
        THEN Outcome("Ok", <<>>)
        ELSE Emit("SMTP-TLS-RPT", [decorated EXCEPT !.derived = d1], to_string_pretty_ok)

handle_report_DMARC(whitelist, decorated, rpt, to_string_pretty_ok) ==
    LET host == Some(get_published_policys_domain(rpt))
        d1 == [decorated.derived EXCEPT !.url.host = host]
        d2 == [d1 EXCEPT !.client.family = get_sender_organisation(rpt)]
    IN  IF host # None /\ ~is_domain_allowed(whitelist, host[1])
        THEN Outcome("Ok", <<>>)
        ELSE Emit("DMARC", [decorated EXCEPT !.derived = d2], to_string_pretty_ok)

\* handle_report(report, user_agent, filter): result is "Ok", "Err" (the
\* serializer failed) or "Panic"; log is what it wrote to the sink.
handle_report(whitelist, file, report, user_agent, to_string_pretty_ok) ==
    LET ua == IF user_agent # None
              THEN analyze_user_agent(file, user_agent[1])
              ELSE [ok |-> TRUE, client |-> Client_default, os |-> Client_default,
                    device |-> Device_default]
        decorated == [report |-> report,
                      derived |-> WithUserAgent(Derived_default, ua)]
    IN  IF ~ua.ok THEN Outcome("Panic", <<>>)
        ELSE CASE report.shape = "ReportingAPI" ->
                    handle_report_ReportingAPI(whitelist, file, decorated, report.rpt,
                                               to_string_pretty_ok)
               [] report.shape = "CSPLvl2" ->
                    handle_report_CSPLvl2(whitelist, decorated, report.rpt,
                                          to_string_pretty_ok)
               [] report.shape = "SMTPTLSRPT" ->
                    handle_report_SMTPTLSRPT(whitelist, decorated, report.rpt,
                                             to_string_pretty_ok)
               [] report.shape = "DMARC" ->
                    handle_report_DMARC(whitelist, decorated, report.rpt,
                                        to_string_pretty_ok)

(***************************************************************************)
(* State                                                                   *)
(***************************************************************************)
\* The configurations of domain_whitelist that are tried.
Whitelists == {<<>>, <<"a.com">>, <<"A.com">>, <<"b.com">>, <<"b.com", "a.com">>}

NoReport == [shape |-> "none"]

NoCall ==
    [fn |-> "none", host |-> "", url |-> NotAUrl, report |-> NoReport,
     user_agent |-> None, ret |-> FALSE, outcome |-> Outcome("Ok", <<>>),
     wire |-> <<>>, decoded |-> [ok |-> FALSE, value |-> <<>>]]

NoBody == [utf8 |-> TRUE, top |-> "none", items |-> <<>>]

HttpIdle ==
    [pc |-> "idle", endpoint |-> "none", content_type |-> "none", body |-> NoBody,
     user_agent |-> None,
     multi |-> FALSE, reports |-> <<>>, idx |-> 1, res |-> "Ok",
     handled |-> <<>>, response |-> "none"]

NoDMARCReport == [report_metadata |-> [org_name |-> ""],
                  policy_published |-> [domain |-> ""]]

ImapOff ==
    [pc |-> "off", session |-> FALSE, messages |-> <<>>, midx |-> 1, res |-> <<>>,
     eidx |-> 1, failed_at |-> 0, error |-> "none", slept |-> 0,
     search_results |-> "none"]

InitConfig(files) ==
    /\ domain_whitelist \in Whitelists
    /\ regexes \in files
    /\ sink = <<>>
    /\ call = NoCall
    /\ http = HttpIdle
    /\ imap = ImapOff

(***************************************************************************)
(* Direct calls of the filter and of the dispatcher                        *)
(***************************************************************************)
Call_is_domain_allowed ==
    /\ call.fn = "none"
    /\ \E host \in Hosts :
           call' = [NoCall EXCEPT !.fn = "is_domain_allowed", !.host = host,
                                  !.ret = is_domain_allowed(domain_whitelist, host)]
    /\ sink' = <<>>
    /\ UNCHANGED <<domain_whitelist, regexes, http, imap>>

Call_is_domain_of_url_allowed ==
    /\ call.fn = "none"
    /\ \E url \in Urls :
           call' = [NoCall EXCEPT !.fn = "is_domain_of_url_allowed", !.url = url,
                                  !.ret = is_domain_of_url_allowed(domain_whitelist, url)]
    /\ sink' = <<>>
    /\ UNCHANGED <<domain_whitelist, regexes, http, imap>>

Call_handle_report ==
    /\ call.fn = "none"
    /\ \E report \in Reports, user_agent \in OptUserAgents, to_string_pretty_ok \in BOOLEAN :
           LET out == handle_report(domain_whitelist, regexes, report, user_agent,
                                    to_string_pretty_ok)
           IN  /\ call' = [NoCall EXCEPT !.fn = "handle_report", !.report = report,
                                         !.user_agent = user_agent, !.outcome = out]
               /\ sink' = out.log
    /\ UNCHANGED <<domain_whitelist, regexes, http, imap>>

\* The call has returned; the next one starts from a fresh log window.
Call_return ==
    /\ call.fn # "none"
    /\ call' = NoCall
    /\ sink' = <<>>
    /\ UNCHANGED <<domain_whitelist, regexes, http, imap>>

InitUnit == InitConfig(RegexesStates)

NextUnit ==
    \/ Call_is_domain_allowed
    \/ Call_is_domain_of_url_allowed
    \/ Call_handle_report
    \/ Call_return

SpecUnit == InitUnit /\ [][NextUnit]_vars

(***************************************************************************)
(* Claims about the filter and the dispatcher (under SpecUnit)             *)
(***************************************************************************)
InWhitelist(host) == \E i \in 1..Len(domain_whitelist) : domain_whitelist[i] = host

\* C1: is_domain_allowed(host) is true for every host when the whitelist is
\* empty; otherwise it is true exactly when host is, character for character,
\* an entry of the whitelist.
C1_IsDomainAllowed ==
    call.fn = "is_domain_allowed" =>
        IF Len(domain_whitelist) = 0
        THEN call.ret = TRUE
        ELSE call.ret = InWhitelist(call.host)

\* "A.com" is refused by the whitelist ["a.com"].
C1_Witness ==
    /\ call.fn = "is_domain_allowed"
    /\ domain_whitelist = <<"a.com">>
    /\ call.host = "A.com"
    /\ call.ret = FALSE

\* C2: is_domain_of_url_allowed(url) is false, under every whitelist, when
\* the URL does not parse or has no host; otherwise it is
\* is_domain_allowed(host of the URL).
C2_UrlFailsClosed ==
    call.fn = "is_domain_of_url_allowed" =>
        LET parsed == Url_parse(call.url)
        IN  IF ~parsed.ok \/ parsed.host = None
            THEN call.ret = FALSE
            ELSE call.ret = (Len(domain_whitelist) = 0 \/ InWhitelist(parsed.host[1]))

\* "not a url" is refused by the empty (allow-all) whitelist.
C2_Witness ==
    /\ call.fn = "is_domain_of_url_allowed"
    /\ domain_whitelist = <<>>
    /\ call.url = NotAUrl
    /\ call.ret = FALSE

\* What the filter says of the relevant domain of a report: "pass",
\* "reject", or "none" when the report has no relevant domain (an SMTP-TLS
\* report without policies).
DomainVerdict(host) ==
    IF host = None THEN "reject"
    ELSE IF Len(domain_whitelist) = 0 \/ InWhitelist(host[1]) THEN "pass" ELSE "reject"

UrlHost(url) == IF Url_parse(url).ok THEN Url_parse(url).host ELSE None

FilterVerdict(report) ==
    CASE report.shape = "ReportingAPI" -> DomainVerdict(UrlHost(report.rpt.url))
      [] report.shape = "CSPLvl2" ->
            DomainVerdict(UrlHost(report.rpt.csp_report.document_url))
      [] report.shape = "SMTPTLSRPT" ->
            IF Len(report.rpt.policies) = 0 THEN "none"
            ELSE DomainVerdict(Some(report.rpt.policies[1].policy.policy_domain))
      [] report.shape = "DMARC" ->
            DomainVerdict(Some(report.rpt.policy_published.domain))

\* C3: handle_report emits nothing for a report, of any of the four
\* shapes, whose relevant domain the filter rejects (host of the envelope
\* url, host of the document URL, first policy's domain, published
\* policy's domain).
C3_EmitsOnlyAdmitted ==
    call.fn = "handle_report" /\ FilterVerdict(call.report) = "reject" =>
        call.outcome.log = <<>> /\ sink = <<>>

\* A Reporting-API report for b.com was handed to handle_report under the
\* whitelist ["a.com"].
C3_Witness ==
    /\ call.fn = "handle_report"
    /\ call.report.shape = "ReportingAPI"
    /\ domain_whitelist = <<"a.com">>
    /\ call.report.rpt.url = UrlB
    /\ sink = <<>>

\* The label the specification gives each sub-kind.
StableLabel(report) ==
    CASE report.shape = "CSPLvl2" -> "CSP"
      [] report.shape = "SMTPTLSRPT" -> "SMTP-TLS-RPT"
      [] report.shape = "DMARC" -> "DMARC"
      [] report.shape = "ReportingAPI" ->
            CASE report.rpt.type = "coep" -> "COEP"
              [] report.rpt.type = "coop" -> "COOP"
              [] report.rpt.type = "crash" -> "Crash"
              [] report.rpt.type = "csp-hash" -> "CSP-Hash"
              [] report.rpt.type = "csp-violation" -> "CSP"
              [] report.rpt.type = "deprecation" -> "Deprecation"
              [] report.rpt.type = "integrity-violation" -> "IntegrityViolation"
              [] report.rpt.type = "intervention" -> "Intervention"
              [] report.rpt.type = "network-error" -> "NEL"
              [] report.rpt.type = "permissions-policy-violation" ->
                    "PermissionsPolicyViolation"

\* C7: every record handle_report emits carries the stable label of its
\* sub-kind.
C7_StableLabels ==
    \A i \in 1..Len(sink) :
        sink[i].by = "handle_report" => sink[i].label = StableLabel(sink[i].report)

\* C15: the admission decision for an SMTP-TLS report is a function of the
\* whitelist and of the domain of its first policy alone, so reports that
\* differ in later policies only are decided alike: a report handled to
\* completion is emitted exactly when that domain passes the filter, never
\* otherwise, and what is emitted carries the label "SMTP-TLS-RPT" and that
\* domain.
C15_FirstPolicyDecides ==
    ( /\ call.fn = "handle_report"
      /\ call.report.shape = "SMTPTLSRPT"
      /\ Len(call.report.rpt.policies) >= 1 ) =>
        LET first == call.report.rpt.policies[1].policy.policy_domain
            admitted == Len(domain_whitelist) = 0 \/ InWhitelist(first)
        IN  /\ ~admitted => sink = <<>>
            /\ call.outcome.result = "Ok" => (Len(sink) = 1 <=> admitted)
            /\ Len(sink) <= 1
            /\ \A k \in 1..Len(sink) :
                   /\ sink[k].label = "SMTP-TLS-RPT"
                   /\ sink[k].derived.url.host = Some(first)

\* A report whose first policy is for the whitelisted a.com and whose
\* second is for b.com has been emitted.
C15_Witness ==
    /\ call.fn = "handle_report"
    /\ call.report.shape = "SMTPTLSRPT"
    /\ domain_whitelist = <<"a.com">>
    /\ Len(call.report.rpt.policies) = 2
    /\ call.report.rpt.policies[1].policy.policy_domain = "a.com"
    /\ call.report.rpt.policies[2].policy.policy_domain = "b.com"
    /\ Len(sink) = 1
    /\ sink[1].label = "SMTP-TLS-RPT"

(***************************************************************************)
(* Payloads on the wire and their decoding (serde)                         *)
(***************************************************************************)
\* A JSON value in the place of the u32 field age.
JAbsent == [t |-> "absent", n |-> 0]
JNumber(n) == [t |-> "number", n |-> n]
JString == [t |-> "string", n |-> 0]

\* One JSON object of an application/reports+json payload.
WireReports ==
    [type : ReportKinds \cup {"unknown"}, age : {JAbsent, JNumber(42), JString},
     url : Urls, user_agent : OptUserAgents]

\* The objects that arrays are built from.
BatchWireReports ==
    [type : {"crash", "network-error"}, age : {JNumber(42), JString},
     url : {UrlA, UrlB, NotAUrl}, user_agent : {None}]

\* Deserialize for reporting_api::Report: the tag must name a variant and
\* age must be a number when present.
Report_deserialize(w) ==
    IF w.type \notin ReportKinds \/ w.age.t = "string"
    THEN [ok |-> FALSE, report |-> NoReport]
    ELSE [ok |-> TRUE,
          report |-> [type |-> w.type,
                      age |-> IF w.age.t = "absent" THEN None ELSE Some(w.age.n),
                      url |-> w.url, user_agent |-> w.user_agent]]

RECURSIVE Vec_deserialize_lenient(_)
Vec_deserialize_lenient(items) ==
    IF items = <<>> THEN [ok |-> TRUE, reports |-> <<>>]
    ELSE LET first == Report_deserialize(Head(items))
             rest == Vec_deserialize_lenient(Tail(items))
         IN  IF first.ok
             THEN [ok |-> TRUE, reports |-> <<first.report>> \o rest.reports]
             ELSE rest

RECURSIVE Vec_deserialize(_)
Vec_deserialize(items) ==
    IF items = <<>> THEN [ok |-> TRUE, reports |-> <<>>]
    ELSE LET first == Report_deserialize(Head(items))
             rest == Vec_deserialize(Tail(items))
         IN  IF first.ok /\ rest.ok
             THEN [ok |-> TRUE, reports |-> <<first.report>> \o rest.reports]
             ELSE [ok |-> FALSE, reports |-> <<>>]

\* serde_json::from_str::<ReportingApiReport>: untagged, Single(Report)
\* for an object, Multi(Vec<Report>) for an array.
ReportingApiReport_deserialize(body) ==
    IF body.top = "object"
    THEN LET one == Report_deserialize(body.items[1])
         IN  [ok |-> one.ok, multi |-> FALSE,
              reports |-> IF one.ok THEN <<one.report>> ELSE <<>>]
    ELSE IF body.top = "array"
    THEN LET all == Vec_deserialize(body.items)
         IN  [ok |-> all.ok, multi |-> TRUE, reports |-> all.reports]
    ELSE [ok |-> FALSE, multi |-> FALSE, reports |-> <<>>]

\* main.rs get_body_as_string: String::from_utf8 of the bytes.
get_body_as_string(body) == [ok |-> body.utf8]

ReportsJsonBodies ==
    {[utf8 |-> TRUE, top |-> "object", items |-> <<w>>] : w \in WireReports}
        \cup {[utf8 |-> TRUE, top |-> "array", items |-> ws] :
                ws \in SeqsUpTo(BatchWireReports, MaxBatch)}
        \cup {[utf8 |-> TRUE, top |-> "malformed", items |-> <<>>],
              [utf8 |-> FALSE, top |-> "malformed", items |-> <<>>]}

RECURSIVE AsReportingAPI(_)
AsReportingAPI(reports) ==
    IF reports = <<>> THEN <<>>
    ELSE <<ReportingAPI(Head(reports))>> \o AsReportingAPI(Tail(reports))

(***************************************************************************)
(* The HTTP handlers                                                       *)
(***************************************************************************)
\* The Content-Type values requests arrive with ("" when the header is
\* missing), and the arm of report_csp's match req.content_type() each takes.
ContentTypes ==
    {"application/reports+json", "application/csp-report", "application/json", ""}

match_content_type_sniffing(ct) ==
    IF ct = "application/reports+json" \/ ct = "application/json" THEN "reports+json"
    ELSE IF ct = "application/csp-report" \/ ct = "" THEN "csp-report"
    ELSE "other"

match_content_type(ct) ==
    IF ct = "application/reports+json" THEN "reports+json"
    ELSE IF ct = "application/csp-report" THEN "csp-report"
    ELSE "other"

Begin(endpoint, body, user_agent, multi, reports) ==
    [HttpIdle EXCEPT !.pc = "handling", !.endpoint = endpoint, !.body = body,
                     !.user_agent = user_agent, !.multi = multi, !.reports = reports]

Rejected(endpoint, body) ==
    [HttpIdle EXCEPT !.pc = "done", !.endpoint = endpoint, !.body = body,
                     !.response = "BadRequest"]

\* reporting_api.rs reporting_api: the Json extractor decodes the body, a
\* body it cannot decode is answered 400 before the handler runs.
reporting_api ==
    /\ http.pc = "idle"
    /\ \E body \in ReportsJsonBodies :
           LET decoded == ReportingApiReport_deserialize(body)
           IN  http' = IF body.utf8 /\ decoded.ok
                       THEN Begin("reporting_api", body, None, decoded.multi,
                                  AsReportingAPI(decoded.reports))
                       ELSE Rejected("reporting_api", body)
    /\ sink' = <<>>
    /\ UNCHANGED <<domain_whitelist, regexes, call, imap>>

\* reports/csp.rs report_csp, content type application/reports+json.
report_csp_reports_json ==
    /\ http.pc = "idle"
    /\ \E ct \in ContentTypes, body \in ReportsJsonBodies :
           /\ match_content_type(ct) = "reports+json"
           /\ LET str == get_body_as_string(body)
                  report_parse_res == ReportingApiReport_deserialize(body)
                  h == IF str.ok /\ report_parse_res.ok
                       THEN Begin("csp", body, None, report_parse_res.multi,
                                  AsReportingAPI(report_parse_res.reports))
                       ELSE Rejected("csp", body)
              IN  http' = [h EXCEPT !.content_type = ct]
    /\ sink' = <<>>
    /\ UNCHANGED <<domain_whitelist, regexes, call, imap>>

\* reporting_api.rs handle_reporting_api_report: what one turn of the loop
\* over the batch does with handle_res (for Single, the only turn).
for_report_in_reports_keeps_going(h, seen, result) ==
    IF result = "Panic"
    THEN [h EXCEPT !.handled = seen, !.pc = "done", !.response = "Panic"]
    ELSE IF result = "Err"
    THEN [h EXCEPT !.handled = seen, !.res = "Err", !.idx = h.idx + 1]
    ELSE [h EXCEPT !.handled = seen, !.idx = h.idx + 1]

\* (a variant that ends the batch at the first report that was dropped)
for_report_in_reports_stops_at_drop(h, seen, result) ==
    IF result = "Panic"
    THEN [h EXCEPT !.handled = seen, !.pc = "done", !.response = "Panic"]
    ELSE IF result = "Err"
    THEN [h EXCEPT !.handled = seen, !.res = "Err", !.pc = "respond"]
    ELSE IF seen[Len(seen)].emitted = 0
    THEN [h EXCEPT !.handled = seen, !.pc = "respond"]
    ELSE [h EXCEPT !.handled = seen, !.idx = h.idx + 1]

for_report_in_reports(h, seen, result) ==
    IF result = "Panic"
    THEN [h EXCEPT !.handled = seen, !.pc = "done", !.response = "Panic"]
    ELSE IF result = "Err"
    THEN [h EXCEPT !.handled = seen, !.res = "Err", !.pc = "respond"]
    ELSE [h EXCEPT !.handled = seen, !.idx = h.idx + 1]

handle_reporting_api_report_step ==
    /\ http.pc = "handling"
    /\ http.idx <= Len(http.reports)
    /\ \E to_string_pretty_ok \in BOOLEAN :
           LET handle_res == handle_report(domain_whitelist, regexes,
                                           http.reports[http.idx], http.user_agent,
                                           to_string_pretty_ok)
               seen == Append(http.handled,
                              [result |-> handle_res.result,
                               emitted |-> Len(handle_res.log)])
           IN  /\ sink' = sink \o handle_res.log
               /\ http' = for_report_in_reports(http, seen, handle_res.result)
    /\ UNCHANGED <<domain_whitelist, regexes, call, imap>>

handle_reporting_api_report_end ==
    /\ http.pc = "handling"
    /\ http.idx > Len(http.reports)
    /\ http' = [http EXCEPT !.pc = "respond"]
    /\ UNCHANGED <<domain_whitelist, regexes, sink, call, imap>>

\* match res { Ok(_) => HttpResponse::Ok(), Err(err) => HttpResponse::BadRequest() }
respond ==
    /\ http.pc = "respond"
    /\ http' = [http EXCEPT !.pc = "done",
                            !.response = IF http.res = "Ok" THEN "Ok" ELSE "BadRequest"]
    /\ UNCHANGED <<domain_whitelist, regexes, sink, call, imap>>

\* The request is over; the worker takes the next one.
next_request ==
    /\ http.pc = "done"
    /\ http' = HttpIdle
    /\ sink' = <<>>
    /\ UNCHANGED <<domain_whitelist, regexes, call, imap>>

\* reports/csp.rs report_csp, content type application/csp-report: the
\* report is written to the log as it was parsed, by the handler itself.
\* to_string_pretty(&report.csp_report).unwrap() serialises a CSPViolation,
\* a struct of strings, integers and a unit enum, into memory: it has no
\* failing case, so the unwrap never panics.
CspLegacyBodies ==
    {[utf8 |-> TRUE, top |-> "object", items |-> <<r>>] : r \in CSPReports}
        \cup {[utf8 |-> TRUE, top |-> "malformed", items |-> <<>>],
              [utf8 |-> FALSE, top |-> "malformed", items |-> <<>>]}

report_csp_legacy ==
    /\ http.pc = "idle"
    /\ \E ct \in ContentTypes, body \in CspLegacyBodies :
           /\ match_content_type(ct) = "csp-report"
           /\ LET str == get_body_as_string(body)
                  parse_res == IF body.top = "object" THEN Some(body.items[1]) ELSE None
              IN  IF str.ok /\ parse_res # None
                  THEN /\ sink' = <<[label |-> "CSP", report |-> CSPLvl2(parse_res[1]),
                                     derived |-> Derived_default, by |-> "report_csp"]>>
                       /\ http' = [Begin("csp", body, None, FALSE,
                                         <<CSPLvl2(parse_res[1])>>)
                                      EXCEPT !.pc = "done", !.response = "Ok",
                                             !.content_type = ct]
                  ELSE /\ sink' = <<>>
                       /\ http' = [Rejected("csp", body) EXCEPT !.content_type = ct]
    /\ UNCHANGED <<domain_whitelist, regexes, call, imap>>

\* reports/csp.rs report_csp, any other content type: the body is not read.
report_csp_other_content_type ==
    /\ http.pc = "idle"
    /\ \E ct \in ContentTypes, body \in ReportsJsonBodies \cup CspLegacyBodies :
           /\ match_content_type(ct) = "other"
           /\ http' = [Rejected("csp", body) EXCEPT !.content_type = ct]
    /\ sink' = <<>>
    /\ UNCHANGED <<domain_whitelist, regexes, call, imap>>

\* The value of a User-Agent header: to_str() accepts visible ASCII only.
HeaderValues ==
    {[text |-> "UA-X", visible_ascii |-> TRUE], [text |-> "UA-Y", visible_ascii |-> TRUE],
     [text |-> "UA-bytes", visible_ascii |-> FALSE]}

OptHeaderValues == {None} \cup {Some(h) : h \in HeaderValues}

TlsRptBodies ==
    {[utf8 |-> TRUE, top |-> "object", items |-> <<r>>] : r \in SMTPTLSReports}
        \cup {[utf8 |-> TRUE, top |-> "malformed", items |-> <<>>]}

\* reports/smtp_tls.rs report_smtp_tls: the Json extractor decodes the
\* body; the header is read with to_str().unwrap().
report_smtp_tls ==
    /\ http.pc = "idle"
    /\ \E body \in TlsRptBodies, header \in OptHeaderValues :
           http' = IF body.top # "object" THEN Rejected("tlsrpt", body)
                   ELSE IF header # None /\ ~header[1].visible_ascii
                   THEN [Begin("tlsrpt", body, Some(header[1].text), FALSE,
                               <<SMTPTLSRPT(body.items[1])>>)
                            EXCEPT !.pc = "done", !.response = "Panic"]
                   ELSE Begin("tlsrpt", body,
                              IF header = None THEN None ELSE Some(header[1].text),
                              FALSE, <<SMTPTLSRPT(body.items[1])>>)
    /\ sink' = <<>>
    /\ UNCHANGED <<domain_whitelist, regexes, call, imap>>

RegexesInstalled == {"absent", "loadable"}

Init == InitConfig(RegexesInstalled)

Next ==
    \/ reporting_api
    \/ report_csp_reports_json
    \/ report_csp_legacy
    \/ report_csp_other_content_type
    \/ report_smtp_tls
    \/ handle_reporting_api_report_step
    \/ handle_reporting_api_report_end
    \/ respond
    \/ next_request

Spec == Init /\ [][Next]_vars

(***************************************************************************)
(* Claims about the HTTP handlers (under Spec)                             *)
(***************************************************************************)
Handled == 1..Len(http.handled)

RECURSIVE SumEmitted(_)
SumEmitted(handled) ==
    IF handled = <<>> THEN 0 ELSE Head(handled).emitted + SumEmitted(Tail(handled))

\* C4: a report the filter rejects makes handle_report return Ok and emit
\* nothing, and a request whose reports are all rejected is answered with
\* the success response.
C4_RejectionIsSuccess ==
    /\ \A i \in Handled :
           FilterVerdict(http.reports[i]) = "reject" =>
               http.handled[i].result = "Ok" /\ http.handled[i].emitted = 0
    /\ ( /\ http.pc = "done"
         /\ http.handled # <<>>
         /\ \A i \in Handled : FilterVerdict(http.reports[i]) = "reject" )
       => http.response = "Ok" /\ sink = <<>>

\* The crash report for a.com posted under the whitelist ["b.com"].
C4_Witness ==
    /\ http.pc = "done"
    /\ http.endpoint = "reporting_api"
    /\ domain_whitelist = <<"b.com">>
    /\ Len(http.reports) = 1
    /\ Len(http.handled) = 1
    /\ http.reports[1].rpt.url = UrlA
    /\ http.response = "Ok"
    /\ sink = <<>>

\* C5 as stated: a request, once fully processed, has caused at most one
\* emission.
C5_AtMostOnePerRequest ==
    http.pc = "done" => Len(sink) <= 1

\* C5 amended: each report of the payload causes zero or one emission, so a
\* request causes at most as many emissions as its payload has reports
\* (at most one when the payload is a single report).
C5_AtMostOnePerReport ==
    /\ \A i \in Handled : http.handled[i].emitted <= 1
    /\ Len(sink) <= Len(http.reports)
    /\ ~http.multi => Len(sink) <= 1

\* A batch of two admitted reports has been processed: two emissions.
C5_Witness ==
    /\ http.pc = "done"
    /\ http.multi
    /\ Len(http.reports) = 2
    /\ Len(sink) = 2

C8_BatchFailsFast ==
    /\ Len(http.handled) <= Len(http.reports)
    /\ http.pc = "handling" => Len(http.handled) = http.idx - 1
    /\ \A i \in Handled :
           http.handled[i].result = "Err" =>
               /\ i = Len(http.handled)
               /\ http.res = "Err"
               /\ http.pc \in {"respond", "done"}
               /\ http.pc = "done" => http.response = "BadRequest"

\* The first report of a batch of two failed; the second was not handled.
C8_Witness ==
    /\ http.pc = "done"
    /\ http.multi
    /\ Len(http.reports) = 2
    /\ Len(http.handled) = 1
    /\ http.handled[1].result = "Err"
    /\ http.response = "BadRequest"

HasMalformedItem(body) ==
    \E i \in 1..Len(body.items) : ~Report_deserialize(body.items[i]).ok

HasWellFormedItem(body) ==
    \E i \in 1..Len(body.items) : Report_deserialize(body.items[i]).ok

\* C9 as stated: the well-formed siblings of a malformed report of a batch
\* are still decoded and processed.
C9_SiblingsProcessed ==
    ( /\ http.pc = "done"
      /\ http.endpoint = "reporting_api"
      /\ http.body.top = "array"
      /\ HasMalformedItem(http.body)
      /\ HasWellFormedItem(http.body) )
    => http.handled # <<>>

\* C9 amended: a field of the wrong type in one report of a batch is a
\* parse error of the whole payload: the request is answered with the
\* client error and no report of the batch is handled or emitted.
C9_WholeBatchRejected ==
    ( /\ http.pc # "idle"
      /\ http.body.top = "array"
      /\ HasMalformedItem(http.body) )
    => /\ http.pc = "done"
       /\ http.response = "BadRequest"
       /\ http.reports = <<>>
       /\ http.handled = <<>>
       /\ sink = <<>>

\* An array of a malformed report and a well-formed, admitted sibling.
C9_Witness ==
    /\ http.pc = "done"
    /\ http.endpoint = "reporting_api"
    /\ http.body.top = "array"
    /\ Len(http.body.items) = 2
    /\ ~Report_deserialize(http.body.items[1]).ok
    /\ Report_deserialize(http.body.items[2]).ok
    /\ http.body.items[2].url = UrlA
    /\ domain_whitelist = <<>>
    /\ http.response = "BadRequest"

\* C14: a legacy CSP report (content type application/csp-report) is
\* emitted only if the host of its document URL passes the admission
\* filter.
C14_LegacyCspFiltered ==
    \A k \in 1..Len(sink) :
        sink[k].report.shape = "CSPLvl2" => FilterVerdict(sink[k].report) = "pass"

\* The request body is not a report the decoder accepts: it is not UTF-8,
\* not JSON, or has a field of the wrong type.
Undecodable(body) ==
    \/ ~body.utf8
    \/ body.top = "malformed"
    \/ \E i \in 1..Len(body.items) :
           /\ "type" \in DOMAIN body.items[i]
           /\ ~Report_deserialize(body.items[i]).ok

C17_SmtpTlsOkOrBadRequest ==
    (http.pc = "done" /\ http.endpoint = "tlsrpt") =>
        http.response \in {"Ok", "BadRequest"}

(***************************************************************************)
(* reports/dmarc.rs: the e-mails of the mailbox and DMARCReader            *)
(***************************************************************************)
\* The bytes of an attachment: what they are (format), whether the
\* container is intact, how many entries a ZIP archive has, whether the
\* text inside is UTF-8, and the report the XML decodes to (None when it
\* does not match the schema).
Contents(format, intact, entries, utf8, report) ==
    [format |-> format, intact |-> intact, entries |-> entries, utf8 |-> utf8,
     report |-> report]

Attachment(type, subtype, contents) ==
    [type |-> type, subtype |-> subtype, contents |-> contents]

\* A fetched message: body() is None, or bytes the mail parser can or
\* cannot parse into a message with attachments.
Message(attachments) == [body |-> TRUE, parsable |-> TRUE, attachments |-> attachments]

ReportFor(domain) ==
    [report_metadata |-> [org_name |-> "acme"], policy_published |-> [domain |-> domain]]

XmlOf(domain) == Contents("xml", TRUE, 0, TRUE, Some(ReportFor(domain)))

MsgXml(domain) == Message(<<Attachment("text", "xml", XmlOf(domain))>>)
MsgGzip == Message(<<Attachment("application", "gzip",
                                Contents("gzip", TRUE, 0, TRUE, Some(ReportFor("a.com"))))>>)
MsgZip == Message(<<Attachment("application", "zip",
                               Contents("zip", TRUE, 1, TRUE, Some(ReportFor("a.com"))))>>)
MsgBadUtf8 == Message(<<Attachment("text", "xml", Contents("xml", TRUE, 0, FALSE, None))>>)
MsgCorruptGzip == Message(<<Attachment("application", "gzip",
                                       Contents("gzip", FALSE, 0, TRUE, None))>>)
MsgInvalidZip == Message(<<Attachment("application", "zip",
                                      Contents("zip", FALSE, 0, TRUE, None))>>)
MsgEmptyZip == Message(<<Attachment("application", "zip",
                                    Contents("zip", TRUE, 0, TRUE, None))>>)
MsgBadXml == Message(<<Attachment("text", "xml", Contents("xml", TRUE, 0, TRUE, None))>>)
MsgOtherType == Message(<<Attachment("image", "png", Contents("other", TRUE, 0, FALSE, None))>>)
MsgReportSecond == Message(<<Attachment("image", "png",
                                        Contents("other", TRUE, 0, FALSE, None)),
                             Attachment("text", "xml", XmlOf("a.com"))>>)
MsgNoAttachment == Message(<<>>)
MsgNoBody == [body |-> FALSE, parsable |-> FALSE, attachments |-> <<>>]
MsgUnparsable == [body |-> TRUE, parsable |-> FALSE, attachments |-> <<>>]

Messages ==
    {MsgXml("a.com"), MsgXml("b.com"), MsgGzip, MsgZip, MsgBadUtf8, MsgCorruptGzip,
     MsgInvalidZip, MsgEmptyZip, MsgBadXml, MsgOtherType, MsgReportSecond,
     MsgNoAttachment, MsgNoBody, MsgUnparsable}

Parsed(kind, report, error) == [kind |-> kind, report |-> report, error |-> error]

\* DMARCReader::parse_report: quick_xml::de::from_str.
parse_report(xml) ==
    IF xml # None THEN Parsed("report", xml[1], "none")
    ELSE Parsed("err", NoDMARCReport, "Parsing")

\* DMARCReader::parse_message, the branches on the attachment's content
\* type: the XML text is taken from the contents, then parse_report.
decode_attachment(attachment) ==
    LET c == attachment.contents
    IN  IF attachment.type = "text" /\ attachment.subtype = "xml"
        THEN IF c.format = "xml" /\ c.utf8 THEN parse_report(c.report)
             ELSE Parsed("err", NoDMARCReport, "Utf8")
        ELSE IF attachment.type = "application" /\ attachment.subtype = "gzip"
        THEN IF c.format = "gzip" /\ c.intact /\ c.utf8 THEN parse_report(c.report)
             ELSE Parsed("err", NoDMARCReport, "Gzip")
        ELSE IF attachment.type = "application" /\ attachment.subtype = "zip"
        THEN IF ~(c.format = "zip" /\ c.intact) THEN Parsed("err", NoDMARCReport, "Zip")
             ELSE IF c.entries = 0 THEN Parsed("panic", NoDMARCReport, "by_index")
             ELSE IF ~c.utf8 THEN Parsed("err", NoDMARCReport, "ZipRead")
             ELSE parse_report(c.report)
        ELSE Parsed("none", NoDMARCReport, "none")

\* (a variant that looks through all the attachments for one to decode)
parse_message_any_attachment(msg) ==
    LET decodable == {i \in 1..Len(msg.attachments) :
                         decode_attachment(msg.attachments[i]).kind # "none"}
    IN  IF decodable # {}
        THEN decode_attachment(msg.attachments[CHOOSE i \in decodable :
                                                   \A j \in decodable : i <= j])
        ELSE Parsed("none", NoDMARCReport, "none")

\* DMARCReader::parse_message: kind is "report" (Ok(Some)), "none"
\* (Ok(None)), "err" (Err(DmarcError)) or "panic" (by_index(0).unwrap()).
\* Only msg.attachment(0) is looked at.
parse_message(msg) ==
    IF msg.attachments # <<>>
    THEN decode_attachment(msg.attachments[1])
    ELSE Parsed("none", NoDMARCReport, "none")

DmarcErrors == {"Utf8", "Gzip", "Zip", "ZipRead", "Parsing"}

(***************************************************************************)
(* main.rs: the IMAP thread, and IMAPClient of reports/dmarc.rs            *)
(***************************************************************************)
SleepSeconds == 300

Panicked(error) == [imap EXCEPT !.pc = "panicked", !.error = error]

\* main.rs match imap_connect_res: Ok(imap_client) goes on to read, an Err
\* is printed and nothing else is done before the sleep.
imap_connect_res_falls_through(connected) ==
    IF connected
    THEN [ImapOff EXCEPT !.pc = "search", !.session = TRUE]
    ELSE [ImapOff EXCEPT !.pc = "search", !.error = "connect"]

imap_connect_res(connected) ==
    IF connected
    THEN [ImapOff EXCEPT !.pc = "search", !.session = TRUE]
    ELSE [ImapOff EXCEPT !.pc = "sleep", !.error = "connect"]

\* IMAPClient::connect: connect, login, select INBOX.  An Err is printed
\* and the thread goes to sleep.
imap_connect ==
    /\ imap.pc = "connect"
    /\ \E connected \in BOOLEAN : imap' = imap_connect_res(connected)
    /\ sink' = <<>>
    /\ UNCHANGED <<domain_whitelist, regexes, call, http>>

\* IMAPClient::read: uid_search.  An Err is returned by read, and
\* .expect("unable to read message") panics on it.
imap_search ==
    /\ imap.pc = "search"
    /\ \E search_results \in {"err", "empty", "some"} :
           imap' = CASE search_results = "err" -> Panicked("IMAP")
                     [] search_results = "empty" ->
                            [imap EXCEPT !.pc = "emit", !.search_results = "empty"]
                     [] search_results = "some" ->
                            [imap EXCEPT !.pc = "fetch", !.search_results = "some"]
    /\ UNCHANGED <<domain_whitelist, regexes, sink, call, http>>

\* IMAPClient::read: uid_fetch of the matching messages.
imap_fetch ==
    /\ imap.pc = "fetch"
    /\ \/ imap' = Panicked("IMAP")
       \/ \E messages \in SeqsUpTo(Messages, MaxMessages) :
              /\ messages # <<>>
              /\ imap' = [imap EXCEPT !.pc = "parse", !.messages = messages]
    /\ UNCHANGED <<domain_whitelist, regexes, sink, call, http>>

\* IMAPClient::read: what one turn of the loop over the messages does.
for_message_in_messages_skips_errors(i, message) ==
    IF ~message.body THEN [i EXCEPT !.midx = i.midx + 1]
    ELSE IF ~message.parsable
    THEN [i EXCEPT !.pc = "panicked", !.error = "MessageParser", !.failed_at = i.midx]
    ELSE LET parsed == parse_message(message)
         IN  CASE parsed.kind = "panic" ->
                    [i EXCEPT !.pc = "panicked", !.error = parsed.error,
                              !.failed_at = i.midx]
               [] parsed.kind = "err" ->
                    [i EXCEPT !.error = parsed.error, !.failed_at = i.midx,
                              !.midx = i.midx + 1]
               [] parsed.kind = "report" ->
                    [i EXCEPT !.res = Append(i.res, parsed.report), !.midx = i.midx + 1]
               [] parsed.kind = "none" -> [i EXCEPT !.midx = i.midx + 1]

for_message_in_messages(i, message) ==
    IF ~message.body THEN [i EXCEPT !.midx = i.midx + 1]
    ELSE IF ~message.parsable
    THEN [i EXCEPT !.pc = "panicked", !.error = "MessageParser", !.failed_at = i.midx]
    ELSE LET parsed == parse_message(message)
         IN  CASE parsed.kind = "panic" ->
                    [i EXCEPT !.pc = "panicked", !.error = parsed.error,
                              !.failed_at = i.midx]
               [] parsed.kind = "err" ->
                    [i EXCEPT !.pc = "panicked", !.error = parsed.error,
                              !.failed_at = i.midx]
               [] parsed.kind = "report" ->
                    [i EXCEPT !.res = Append(i.res, parsed.report), !.midx = i.midx + 1]
               [] parsed.kind = "none" -> [i EXCEPT !.midx = i.midx + 1]

imap_parse ==
    /\ imap.pc = "parse"
    /\ imap.midx <= Len(imap.messages)
    /\ imap' = for_message_in_messages(imap, imap.messages[imap.midx])
    /\ UNCHANGED <<domain_whitelist, regexes, sink, call, http>>

\* read returns Ok(res).
imap_read_end ==
    /\ imap.pc = "parse"
    /\ imap.midx > Len(imap.messages)
    /\ imap' = [imap EXCEPT !.pc = "emit"]
    /\ UNCHANGED <<domain_whitelist, regexes, sink, call, http>>

\* main.rs: for report in reports { info!("DMARC {}", to_string_pretty(&report).unwrap()) }
\* The report goes to the log as it was extracted: handle_report and the
\* filter are not called.  Serialising a DMARCReport into memory has no
\* failing case, so the unwrap never panics.
imap_emit ==
    /\ imap.pc = "emit"
    /\ imap.eidx <= Len(imap.res)
    /\ sink' = Append(sink, [label |-> "DMARC", report |-> DMARC(imap.res[imap.eidx]),
                             derived |-> Derived_default, by |-> "main"])
    /\ imap' = [imap EXCEPT !.eidx = imap.eidx + 1]
    /\ UNCHANGED <<domain_whitelist, regexes, call, http>>

\* (a variant that goes on to the sleep without the logout)
imap_disconnect_res_keeps_session(logged_out) == [imap EXCEPT !.pc = "sleep"]

\* main.rs imap_client.disconnect().expect(..): after Ok the session is
\* logged out and the client is dropped; an Err panics.
imap_disconnect_res(logged_out) ==
    IF logged_out
    THEN [imap EXCEPT !.pc = "sleep", !.session = FALSE]
    ELSE Panicked("logout")

\* IMAPClient::disconnect: logout, .expect("failed to disconnect from IMAP server").
imap_disconnect ==
    /\ imap.pc = "emit"
    /\ imap.eidx > Len(imap.res)
    /\ \E logged_out \in BOOLEAN : imap' = imap_disconnect_res(logged_out)
    /\ UNCHANGED <<domain_whitelist, regexes, sink, call, http>>

\* sleep(Duration::from_secs(300)), then the loop starts over.
imap_sleep ==
    /\ imap.pc = "sleep"
    /\ imap' = [imap EXCEPT !.pc = "connect", !.slept = SleepSeconds]
    /\ UNCHANGED <<domain_whitelist, regexes, sink, call, http>>

InitPoller ==
    /\ domain_whitelist \in Whitelists
    /\ regexes \in RegexesInstalled
    /\ sink = <<>>
    /\ call = NoCall
    /\ http = HttpIdle
    /\ imap = [ImapOff EXCEPT !.pc = "connect"]

NextPoller ==
    \/ imap_connect
    \/ imap_search
    \/ imap_fetch
    \/ imap_parse
    \/ imap_read_end
    \/ imap_emit
    \/ imap_disconnect
    \/ imap_sleep

SpecPoller == InitPoller /\ [][NextPoller]_vars

\* The IMAP thread is a running thread: a step it can take, it takes.
SpecPollerLive == InitPoller /\ [][NextPoller]_vars /\ WF_vars(NextPoller)

(***************************************************************************)
(* Claims about the IMAP thread (under SpecPoller)                         *)
(***************************************************************************)
Extracts(message) ==
    message.body /\ message.parsable /\ parse_message(message).kind = "report"

Dispatched(report) == \E k \in 1..Len(sink) : sink[k].report = DMARC(report)

\* C10: when the extraction of one message of the fetched batch has failed,
\* every other message that carries a report is still extracted and, by
\* the end of the cycle, its report has been dispatched.
C10_OthersStillProcessed ==
    ( /\ imap.pc \in {"sleep", "panicked"}
      /\ imap.error \in DmarcErrors )
    => \A i \in 1..Len(imap.messages) :
           (i # imap.failed_at /\ Extracts(imap.messages[i])) =>
               /\ i < imap.midx
               /\ Dispatched(parse_message(imap.messages[i]).report)


\* The failures of a mailbox session: search and fetch (DmarcError::IMAP),
\* extraction, logout.
SessionFailures == {"IMAP", "logout", "MessageParser", "by_index"} \cup DmarcErrors

\* C11: after a failure of search, fetch, extraction or logout the poller
\* still reaches the sleep step, and in every execution it keeps starting
\* new cycles forever.
C11_FailuresNeverFatal ==
    /\ (imap.error \in SessionFailures) ~> (imap.pc = "sleep")
    /\ []<>(imap.pc = "connect")

\* C12: when connecting fails, nothing of the mailbox is touched in that
\* cycle (no session, no search, no fetch, no emission, no logout): the
\* poller is at the sleep step, and its next step is the next cycle's
\* connection attempt.
C12_ConnectFailureSkipsToSleep ==
    [][ /\ (imap.pc = "connect" /\ imap'.error = "connect") =>
              /\ imap'.pc = "sleep"
              /\ ~imap'.session
              /\ imap'.messages = <<>> /\ imap'.res = <<>>
              /\ sink' = <<>>
        /\ (imap.error = "connect" /\ imap.pc # "connect") =>
              /\ imap.pc = "sleep"
              /\ imap'.pc = "connect"
              /\ imap'.slept = SleepSeconds
              /\ sink' = sink ]_vars

\* A cycle whose connection failed has slept and is connecting again.
C12_Witness ==
    /\ imap.pc = "connect"
    /\ imap.error = "connect"
    /\ imap.slept = SleepSeconds
    /\ ~imap.session
    /\ sink = <<>>

\* C13: a DMARC report the poller retrieved is emitted only if its
\* published policy's domain passes the admission filter.
C13_PollerEmitsOnlyAdmitted ==
    \A k \in 1..Len(sink) :
        sink[k].report.shape = "DMARC" => FilterVerdict(sink[k].report) = "pass"


\* The decode failures of the DMARC path: the mail parser, and the
\* extraction of the attachment.
DecodeFailures == {"MessageParser", "by_index"} \cup DmarcErrors

\* C18: a decode error of a fetched message never ends the poller thread.
C18_DecodeErrorsNeverCrash ==
    imap.pc = "panicked" => imap.error \notin DecodeFailures

\* The MIME types parse_message decodes.
ReportMimeTypes == {<<"text", "xml">>, <<"application", "gzip">>, <<"application", "zip">>}

FirstIsReportType(msg) ==
    /\ msg.attachments # <<>>
    /\ <<msg.attachments[1].type, msg.attachments[1].subtype>> \in ReportMimeTypes

\* C19: only the first attachment counts.  A message without attachment,
\* or whose first attachment is of another MIME type, is passed over: it
\* is never the message whose extraction failed, and it adds no report to
\* the result, whatever its bytes and its further attachments are.
C19_FirstAttachmentOnly ==
    /\ imap.error \in (DmarcErrors \cup {"by_index"}) =>
           FirstIsReportType(imap.messages[imap.failed_at])
    /\ Len(imap.res) <= Cardinality({i \in 1..Len(imap.messages) :
                                        i < imap.midx /\ FirstIsReportType(imap.messages[i])})
    /\ \A k \in 1..Len(imap.res) :
           \E i \in 1..Len(imap.messages) :
               /\ i < imap.midx
               /\ FirstIsReportType(imap.messages[i])
               /\ imap.messages[i].attachments[1].contents.report = Some(imap.res[k])

\* A message with a PNG first and a DMARC report second, and a message
\* with no attachment, have both been passed over without a report.
C19_Witness ==
    /\ imap.pc = "emit"
    /\ imap.messages = <<MsgReportSecond, MsgNoAttachment>>
    /\ imap.midx = 3
    /\ imap.res = <<>>
    /\ imap.error = "none"


(***************************************************************************)
(* The serde encoders and decoders of the Reporting-API report bodies      *)
(***************************************************************************)
\* A field of a body struct: its name in the struct, the name Serialize
\* writes (ser), the names Deserialize accepts (de: the deserialize name
\* and the aliases), whether it is required (not an Option), and whether it
\* is left out when None (skip_serializing_if = "Option::is_none").
\* rename_all = "camelCase" turns effective_policy into effectivePolicy and
\* document_url into documentUrl, for both directions unless it is given
\* as rename_all(serialize = ..); rename replaces the name outright.
Field(name, ser, de, required, skip) ==
    [name |-> name, ser |-> ser, de |-> de, required |-> required, skip |-> skip]

Req(name, ser) == Field(name, ser, {ser}, TRUE, FALSE)
Opt(name, ser) == Field(name, ser, {ser}, FALSE, FALSE)
OptSkip(name, ser) == Field(name, ser, {ser}, FALSE, TRUE)

CrossOriginEmbedderPolicyViolation ==
    {Req("type", "type"), Req("blocked_url", "blockedURL"), Req("disposition", "disposition")}

\* The flattened CrossOriginOpenerPolicyType is taken in its AccessToOpener
\* variant: the tag "type", property and the four optional URLs.
CrossOriginOpenerPolicyViolation ==
    {Req("disposition", "disposition"), Req("effective_policy", "effectivePolicy"),
     Req("type", "type"), Req("property", "property"),
     Opt("opener_url", "openerURL"), Opt("opened_window_url", "openedWindowURL"),
     Opt("opened_window_initial_url", "openedWindowInitialURL"),
     Opt("other_url", "otherURL"), Opt("referrer", "referrer"),
     OptSkip("source_file", "sourceFile"), OptSkip("line_number", "lineNumber"),
     OptSkip("column_number", "columnNumber")}

Crash ==
    {Req("reason", "reason"), OptSkip("stack", "stack"),
     OptSkip("is_top_level", "is_top_level"),
     Field("page_visibility", "page_visibility",
           {"page_visibility", "visibility_state"}, FALSE, TRUE)}

CSPHash ==
    {Req("document_url", "document_url"), Req("subresource_url", "subresource_url"),
     Req("hash", "hash"), Req("type", "type"), Req("destination", "destination")}

\* rename_all(serialize = "camelCase"): the names written are camelCase, the
\* names read are the struct's own plus the aliases.
CSPViolation ==
    {Field("document_url", "documentUrl",
           {"document_url", "document-uri", "documentURL"}, TRUE, FALSE),
     Field("referrer", "referrer", {"referrer"}, FALSE, FALSE),
     Field("blocked_url", "blockedUrl",
           {"blocked_url", "blocked-uri", "blockedURL"}, FALSE, FALSE),
     Field("effective_directive", "effectiveDirective",
           {"effective_directive", "effective-directive", "effectiveDirective"},
           TRUE, FALSE),
     Field("violated_directive", "violatedDirective", {"violated-directive"}, FALSE, TRUE),
     Field("original_policy", "originalPolicy",
           {"original_policy", "original-policy", "originalPolicy"}, TRUE, FALSE),
     Field("sample", "sample", {"sample"}, FALSE, TRUE),
     Field("disposition", "disposition", {"disposition"}, FALSE, TRUE),
     Field("status_code", "statusCode",
           {"status_code", "status-code", "statusCode"}, FALSE, TRUE),
     Field("source_file", "sourceFile",
           {"source_file", "source-file", "sourceFile"}, FALSE, TRUE),
     Field("line_number", "lineNumber",
           {"line_number", "line-number", "lineNumber"}, FALSE, TRUE),
     Field("column_number", "columnNumber",
           {"column_number", "column-number", "columnNumber"}, FALSE, TRUE)}

Deprecation ==
    {Req("id", "id"), OptSkip("anticipated_removal", "anticipatedRemoval"),
     Req("message", "message"), OptSkip("source_file", "sourceFile"),
     OptSkip("line_number", "lineNumber"), OptSkip("column_number", "columnNumber")}

IntegrityViolation ==
    {Req("document_url", "documentURL"), Req("blocked_url", "blockedURL"),
     Req("destination", "destination"), Req("report_only", "reportOnly")}

Intervention ==
    {Req("id", "id"), Req("message", "message"), OptSkip("source_file", "sourceFile"),
     OptSkip("line_number", "lineNumber"), OptSkip("column_number", "columnNumber")}

NetworkError ==
    {Req("elapsed_time", "elapsed_time"), Req("method", "method"), Req("phase", "phase"),
     Req("protocol", "protocol"), OptSkip("referrer", "referrer"),
     OptSkip("request_headers", "request_headers"),
     OptSkip("response_headers", "response_headers"),
     Req("sampling_fraction", "sampling_fraction"), Req("server_ip", "server_ip"),
     Req("status_code", "status_code"), Req("type", "type"), OptSkip("url", "url")}

\* reports/permissions.rs is not among the sources: a body whose names are
\* written as they are read.
PermissionsPolicyViolation ==
    {Req("policy_id", "policyId"), Req("disposition", "disposition"),
     Opt("message", "message")}

\* reporting_api::ReportType: the struct behind each tag.
Fields(kind) ==
    CASE kind = "coep" -> CrossOriginEmbedderPolicyViolation
      [] kind = "coop" -> CrossOriginOpenerPolicyViolation
      [] kind = "crash" -> Crash
      [] kind = "csp-hash" -> CSPHash
      [] kind = "csp-violation" -> CSPViolation
      [] kind = "deprecation" -> Deprecation
      [] kind = "integrity-violation" -> IntegrityViolation
      [] kind = "intervention" -> Intervention
      [] kind = "network-error" -> NetworkError
      [] kind = "permissions-policy-violation" -> PermissionsPolicyViolation

FieldNames(kind) == {f.name : f \in Fields(kind)}

FieldNamed(kind, name) == CHOOSE f \in Fields(kind) : f.name = name


\* The in-memory bodies of a kind: a value for every field, None allowed
\* for the Option fields only.
Bodies(kind) ==
    {b \in [FieldNames(kind) -> {None, Some("v")}] :
        \A f \in Fields(kind) : f.required => b[f.name] # None}

\* The same, with every Option field None.
PlainBody(kind) ==
    [n \in FieldNames(kind) |->
        IF FieldNamed(kind, n).required THEN Some("v") ELSE None]

\* Serialize of a body struct: a JSON object, one member per field under
\* its ser name, null for a None that is not skipped.
Body_serialize(kind, b) ==
    LET written == {f \in Fields(kind) : ~(f.skip /\ b[f.name] = None)}
    IN  [n \in {f.ser : f \in written} |->
            b[(CHOOSE f \in written : f.ser = n).name]]

\* Deserialize of a body struct: a field takes the member under one of its
\* de names; members of other names are ignored; a missing Option field is
\* None; a missing or null required field is an error, and so is a field
\* given under two of its names.
Body_deserialize(kind, obj) ==
    LET given(f) == f.de \cap DOMAIN obj
        bad == {f \in Fields(kind) :
                   \/ Cardinality(given(f)) > 1
                   \/ f.required /\ \A n \in given(f) : obj[n] = None}
    IN  IF bad # {}
        THEN [ok |-> FALSE, value |-> <<>>]
        ELSE [ok |-> TRUE,
              value |-> [n \in FieldNames(kind) |->
                            LET g == given(FieldNamed(kind, n))
                            IN  IF g = {} THEN None ELSE obj[CHOOSE m \in g : TRUE]]]

\* reporting_api::Report with its body: the flattened, adjacently tagged
\* ReportType gives the members "type" and "body".
ReportsWithBody ==
    UNION {[type : {kind}, body : Bodies(kind), age : {None, Some(42)}, url : {UrlA},
            user_agent : OptUserAgents] : kind \in ReportKinds}

\* The reports batches are built from.
BatchReportsWithBody ==
    {[type |-> kind, body |-> PlainBody(kind), age |-> Some(42), url |-> UrlA,
      user_agent |-> None] : kind \in ReportKinds}

Report_serialize(r) ==
    [type |-> r.type, body |-> Body_serialize(r.type, r.body),
     age |-> IF r.age = None THEN JAbsent ELSE JNumber(r.age[1]),
     url |-> r.url, user_agent |-> r.user_agent]

\* (a variant that decodes the body with whichever schema fits it)
Report_from_json_body_sniffed(w) ==
    LET envelope == Report_deserialize(w)
        fitting == {k \in ReportKinds : Body_deserialize(k, w.body).ok}
        kind == IF w.type \in fitting THEN w.type ELSE CHOOSE k \in fitting : TRUE
    IN  IF envelope.ok /\ fitting # {}
        THEN [ok |-> TRUE,
              value |-> [type |-> envelope.report.type,
                         body |-> Body_deserialize(kind, w.body).value,
                         age |-> envelope.report.age, url |-> envelope.report.url,
                         user_agent |-> envelope.report.user_agent]]
        ELSE [ok |-> FALSE, value |-> <<>>]

\* Deserialize for reporting_api::Report with its body: ReportType is
\* adjacently tagged (tag = "type", content = "body"), so the variant named
\* by "type" is the one whose struct reads "body".
Report_from_json(w) ==
    LET envelope == Report_deserialize(w)
        body == IF envelope.ok THEN Body_deserialize(w.type, w.body)
                ELSE [ok |-> FALSE, value |-> <<>>]
    IN  IF envelope.ok /\ body.ok
        THEN [ok |-> TRUE,
              value |-> [type |-> envelope.report.type, body |-> body.value,
                         age |-> envelope.report.age, url |-> envelope.report.url,
                         user_agent |-> envelope.report.user_agent]]
        ELSE [ok |-> FALSE, value |-> <<>>]

\* ReportingApiReport: Single(Report) is written as the object, Multi(Vec)
\* as the array; reading tries Single, then Multi, and every element of the
\* array must decode.
ReportingApiReport_serialize(x) ==
    [top |-> IF x.multi THEN "array" ELSE "object",
     items |-> [i \in 1..Len(x.reports) |-> Report_serialize(x.reports[i])]]

ReportingApiReport_from_json(j) ==
    LET decoded == [i \in 1..Len(j.items) |-> Report_from_json(j.items[i])]
    IN  IF \A i \in 1..Len(j.items) : decoded[i].ok
        THEN [ok |-> TRUE,
              value |-> [multi |-> (j.top = "array"),
                         reports |-> [i \in 1..Len(j.items) |-> decoded[i].value]]]
        ELSE [ok |-> FALSE, value |-> <<>>]

ReportingApiReportsWithBody ==
    {[multi |-> FALSE, reports |-> <<r>>] : r \in ReportsWithBody}
        \cup {[multi |-> TRUE, reports |-> rs] :
                 rs \in SeqsUpTo(BatchReportsWithBody, MaxBatch)}

\* serde_json::to_string_pretty, then serde_json::from_str, as in
\* tests::parse_single and tests::parse_multi.
serde_round_trip ==
    /\ call.fn = "none"
    /\ \E x \in ReportingApiReportsWithBody :
           LET json == ReportingApiReport_serialize(x)
           IN  call' = [NoCall EXCEPT !.fn = "round_trip", !.report = x, !.wire = json,
                                      !.decoded = ReportingApiReport_from_json(json)]
    /\ sink' = <<>>
    /\ UNCHANGED <<domain_whitelist, regexes, http, imap>>

\* The spellings under which clients send the fields that have legacy
\* names: the field's own name, the CSP2 name and the CSP3 name.
Spellings(name) ==
    CASE name = "document_url" -> {"document_url", "document-uri", "documentURL"}
      [] name = "blocked_url" -> {"blocked_url", "blocked-uri", "blockedURL"}
      [] name = "effective_directive" ->
             {"effective_directive", "effective-directive", "effectiveDirective"}
      [] name = "violated_directive" -> {"violated_directive", "violated-directive"}
      [] name = "original_policy" ->
             {"original_policy", "original-policy", "originalPolicy"}
      [] name = "status_code" -> {"status_code", "status-code", "statusCode"}
      [] name = "source_file" -> {"source_file", "source-file", "sourceFile"}
      [] name = "line_number" -> {"line_number", "line-number", "lineNumber"}
      [] name = "column_number" -> {"column_number", "column-number", "columnNumber"}
      [] name = "page_visibility" -> {"page_visibility", "visibility_state"}
      [] OTHER -> {}

AliasNames ==
    UNION {Spellings(name) : name \in
             {"document_url", "blocked_url", "effective_directive",
              "violated_directive", "original_policy", "status_code", "source_file", "line_number", "column_number",
              "page_visibility"}}

\* A JSON body that gives field f under the name n with the value v, and
\* every other required field under the name rest chooses for it.
BodyNaming(kind, f, n, v, rest) ==
    [m \in {n} \cup {rest[g] : g \in DOMAIN rest} |-> IF m = n THEN v ELSE Some("v")]

RestNamings(kind, f) ==
    LET others == {g \in Fields(kind) : g.required /\ g.name # f.name}
    IN  {rest \in [{g.name : g \in others} -> AliasNames \cup {g.name : g \in others}] :
            \A g \in others : rest[g.name] \in Spellings(g.name) \cup {g.name}}

\* serde_json::from_str of the same body twice, the field once under the
\* name n1 and once under the name n2 (tests::parse_report_lvl2 and
\* tests::parse_report_lvl3_violation read the two spellings of CSP).
serde_decode_alias ==
    /\ call.fn = "none"
    /\ \E kind \in {"csp-violation", "crash"} :
         \E f \in Fields(kind), v \in {Some("v"), Some("w")} :
           \E n1 \in AliasNames, n2 \in AliasNames, rest \in RestNamings(kind, f) :
               /\ n1 \in Spellings(f.name) /\ n2 \in Spellings(f.name)
               /\ LET j1 == BodyNaming(kind, f, n1, v, rest)
                      j2 == BodyNaming(kind, f, n2, v, rest)
                      d1 == Body_deserialize(kind, j1)
                      d2 == Body_deserialize(kind, j2)
                  IN  call' = [NoCall EXCEPT
                                 !.fn = "decode_alias",
                                 !.report = [kind |-> kind, field |-> f.name,
                                             names |-> <<n1, n2>>, value |-> v],
                                 !.wire = <<j1, j2>>,
                                 !.decoded = [ok |-> d1.ok /\ d2.ok,
                                              value |-> <<d1, d2>>]]
    /\ sink' = <<>>
    /\ UNCHANGED <<domain_whitelist, regexes, http, imap>>

\* A JSON body as a client writes it for a report of the given kind: the
\* required members, each under a name the decoder of that kind reads.
WireBody(kind) ==
    [n \in {CHOOSE m \in f.de : TRUE : f \in {g \in Fields(kind) : g.required}} |->
        Some("v")]

\* serde_json::from_str::<Report> of an envelope whose "type" is t and whose
\* "body" is written for the kind k.
serde_decode_envelope ==
    /\ call.fn = "none"
    /\ \E t \in ReportKinds \cup {"unknown"}, k \in ReportKinds,
          age \in {JAbsent, JNumber(42)}, ua \in OptUserAgents :
           LET w == [type |-> t, body |-> WireBody(k), age |-> age, url |-> UrlA,
                     user_agent |-> ua]
           IN  call' = [NoCall EXCEPT !.fn = "decode_envelope",
                                      !.report = [type |-> t, written_for |-> k],
                                      !.wire = w,
                                      !.decoded = Report_from_json(w)]
    /\ sink' = <<>>
    /\ UNCHANGED <<domain_whitelist, regexes, http, imap>>

\* reports/dmarc.rs, the closed vocabularies: the variant a token of the XML
\* text names, after rename_all = "snake_case" and the renames "r" and "s".
Decoded(value) == [ok |-> TRUE, value |-> value]
DecodeError == [ok |-> FALSE, value |-> <<>>]

\* (a variant without the renames: the variants' own names in snake case)
Alignment_deserialize_unrenamed(token) ==
    CASE token = "relaxed" -> Decoded("Relaxed")
      [] token = "strict" -> Decoded("Strict")
      [] OTHER -> DecodeError

Alignment_deserialize(token) ==
    CASE token = "r" -> Decoded("Relaxed")
      [] token = "s" -> Decoded("Strict")
      [] OTHER -> DecodeError

Disposition_deserialize(token) ==
    CASE token = "none" -> Decoded("None")
      [] token = "quarantine" -> Decoded("Quarantine")
      [] token = "reject" -> Decoded("Reject")
      [] OTHER -> DecodeError

DMARCResult_deserialize(token) ==
    CASE token = "pass" -> Decoded("Pass")
      [] token = "fail" -> Decoded("Fail")
      [] OTHER -> DecodeError

\* An Option field: an absent element is None, a present one is decoded.
Option_Alignment_deserialize(element) ==
    IF element = None THEN Decoded(None)
    ELSE LET d == Alignment_deserialize(element[1])
         IN  IF d.ok THEN Decoded(Some(d.value)) ELSE DecodeError

Option_Disposition_deserialize(element) ==
    IF element = None THEN Decoded(None)
    ELSE LET d == Disposition_deserialize(element[1])
         IN  IF d.ok THEN Decoded(Some(d.value)) ELSE DecodeError

\* The elements of a <feedback> document that hold a token or the domain;
\* the other required elements are present and well-formed.
XmlDocuments ==
    [domain : {"a.com", "b.com"},
     adkim : {None, Some("r"), Some("s"), Some("relaxed")},
     aspf : {None, Some("s")},
     p : {"none", "quarantine", "reject", "monitor"},
     sp : {None, Some("quarantine"), Some("Reject")},
     disposition : {"none", "quarantine", "reject", ""},
     dkim : {"pass", "fail", "neutral"},
     spf : {"pass", "fail"}]

\* quick_xml::de::from_str::<DMARCReport>: every element decodes or the
\* document does not.
DMARCReport_deserialize(xml) ==
    LET adkim == Option_Alignment_deserialize(xml.adkim)
        aspf == Option_Alignment_deserialize(xml.aspf)
        pol == Disposition_deserialize(xml.p)
        sp == Option_Disposition_deserialize(xml.sp)
        disposition == Disposition_deserialize(xml.disposition)
        dkim == DMARCResult_deserialize(xml.dkim)
        spf == DMARCResult_deserialize(xml.spf)
    IN  IF adkim.ok /\ aspf.ok /\ pol.ok /\ sp.ok /\ disposition.ok /\ dkim.ok /\ spf.ok
        THEN Decoded([report_metadata |-> [org_name |-> "acme"],
                      policy_published |->
                          [domain |-> xml.domain, adkim |-> adkim.value,
                           aspf |-> aspf.value, p |-> pol.value, sp |-> sp.value],
                      policy_evaluated |->
                          [disposition |-> disposition.value, dkim |-> dkim.value,
                           spf |-> spf.value]])
        ELSE DecodeError

\* DMARCReader::parse_report on a document, then the getter on the result,
\* as in tests::parse_report.
dmarc_parse_report ==
    /\ call.fn = "none"
    /\ \E xml \in XmlDocuments :
           LET res == DMARCReport_deserialize(xml)
           IN  call' = [NoCall EXCEPT
                          !.fn = "parse_report", !.wire = xml, !.decoded = res,
                          !.host = IF res.ok
                                   THEN get_published_policys_domain(res.value)
                                   ELSE ""]
    /\ sink' = <<>>
    /\ UNCHANGED <<domain_whitelist, regexes, http, imap>>

InitSerde ==
    /\ domain_whitelist = <<>>
    /\ regexes = "absent"
    /\ sink = <<>>
    /\ call = NoCall
    /\ http = HttpIdle
    /\ imap = ImapOff

NextSerde ==
    \/ serde_round_trip
    \/ serde_decode_alias
    \/ serde_decode_envelope
    \/ dmarc_parse_report
    \/ Call_return

SpecSerde == InitSerde /\ [][NextSerde]_vars

(***************************************************************************)
(* Claims about the encoders and decoders (under SpecSerde)                *)
(***************************************************************************)
\* C20: decoding what the encoder wrote gives back the report, for a
\* single report and for a batch, whatever the kind of the body.
C20_RoundTrip ==
    call.fn = "round_trip" =>
        /\ call.decoded.ok
        /\ call.decoded.value = call.report

\* C21: for every field with legacy aliases, decoding a body that gives the
\* field under one of its spellings yields the same canonical field value as
\* decoding the body that gives it under any other spelling: both decodes
\* succeed and the decoded bodies are equal.
C21_AliasesDecodeAlike ==
    call.fn = "decode_alias" =>
        /\ call.decoded.ok
        /\ call.decoded.value[1].value = call.decoded.value[2].value

AlignmentTokens == {"r", "s"}
DispositionTokens == {"none", "quarantine", "reject"}
DMARCResultTokens == {"pass", "fail"}

VariantOf(token) ==
    CASE token = "r" -> "Relaxed" [] token = "s" -> "Strict"
      [] token = "none" -> "None" [] token = "quarantine" -> "Quarantine"
      [] token = "reject" -> "Reject" [] token = "pass" -> "Pass"
      [] token = "fail" -> "Fail"

OptVariantOf(element) == IF element = None THEN None ELSE Some(VariantOf(element[1]))

C23_DmarcTokensDecoded ==
    call.fn = "parse_report" =>
        LET xml == call.wire
            d == call.decoded
            in_vocabulary ==
                /\ xml.adkim = None \/ xml.adkim[1] \in AlignmentTokens
                /\ xml.aspf = None \/ xml.aspf[1] \in AlignmentTokens
                /\ xml.p \in DispositionTokens
                /\ xml.sp = None \/ xml.sp[1] \in DispositionTokens
                /\ xml.disposition \in DispositionTokens
                /\ xml.dkim \in DMARCResultTokens
                /\ xml.spf \in DMARCResultTokens
        IN  /\ d.ok <=> in_vocabulary
            /\ d.ok =>
                 /\ d.value.policy_published.p = VariantOf(xml.p)
                 /\ d.value.policy_published.adkim = OptVariantOf(xml.adkim)
                 /\ d.value.policy_published.aspf = OptVariantOf(xml.aspf)
                 /\ d.value.policy_published.sp = OptVariantOf(xml.sp)
                 /\ d.value.policy_evaluated.disposition = VariantOf(xml.disposition)
                 /\ d.value.policy_evaluated.dkim = VariantOf(xml.dkim)
                 /\ d.value.policy_evaluated.spf = VariantOf(xml.spf)
                 /\ call.host = xml.domain

C23_Witness ==
    /\ call.fn = "parse_report"
    /\ call.wire.p = "reject"
    /\ call.wire.adkim = Some("r")
    /\ call.wire.sp = None
    /\ call.wire.domain = "b.com"
    /\ call.decoded.ok
    /\ call.decoded.value.policy_published.p = "Reject"
    /\ call.decoded.value.policy_published.adkim = Some("Relaxed")
    /\ call.decoded.value.policy_published.sp = None
    /\ call.host = "b.com"

(***************************************************************************)
(* Claims about enrichment and the shapes of the dispatcher (SpecUnit)     *)
(***************************************************************************)
\* C24: enrichment never fails the pipeline: whatever the state of the
\* user-agent ruleset file and whatever the URL, handle_report does not
\* abort; with the file absent the derived client, OS and device of an
\* emitted Reporting-API report are empty.
C24_EnrichmentNeverAborts ==
    call.fn = "handle_report" =>
        /\ call.outcome.result # "Panic"
        /\ (regexes = "absent" /\ call.report.shape = "ReportingAPI") =>
               \A i \in 1..Len(sink) :
                   /\ sink[i].derived.client = Client_default
                   /\ sink[i].derived.os = Client_default
                   /\ sink[i].derived.device = Device_default

\* C25: for an admitted Reporting-API report the fields of the envelope take
\* precedence over the transport's: the emitted client, OS and device are
\* those of the envelope's user_agent when it has one, whatever User-Agent
\* the transport supplied, and those of the transport's only when the
\* envelope has none; the derived URL is that of the envelope's url.
UserAgentInEffect ==
    IF call.report.rpt.user_agent # None THEN call.report.rpt.user_agent
    ELSE call.user_agent

C25_EnvelopeTakesPrecedence ==
    (call.fn = "handle_report" /\ call.report.shape = "ReportingAPI") =>
        \A i \in 1..Len(sink) :
            LET ua == UserAgentInEffect
                known == ua # None /\ regexes = "loadable"
                url == Url_parse(call.report.rpt.url)
            IN  /\ sink[i].derived.client =
                       IF known THEN uap_parse(ua[1]).client ELSE Client_default
                /\ sink[i].derived.os =
                       IF known THEN uap_parse(ua[1]).os ELSE Client_default
                /\ sink[i].derived.device =
                       IF known THEN uap_parse(ua[1]).device ELSE Device_default
                /\ sink[i].derived.url.host = url.host
                /\ sink[i].derived.url.path = url.path

C25_Witness ==
    /\ call.fn = "handle_report"
    /\ call.report.shape = "ReportingAPI"
    /\ regexes = "loadable"
    /\ call.user_agent = Some("UA-Y")
    /\ call.report.rpt.user_agent = Some("UA-X")
    /\ Len(sink) = 1
    /\ sink[1].derived.client.family = "Firefox"
    /\ sink[1].derived.url.host = Some("a.com")

\* C27: an SMTP-TLS report with an empty policies list bypasses the filter:
\* under every whitelist, the non-empty ones included, a call that returns
\* Ok has emitted the report, once, with the host of the derived URL absent.
C27_EmptyPoliciesBypassFilter ==
    (/\ call.fn = "handle_report"
     /\ call.report.shape = "SMTPTLSRPT"
     /\ call.report.rpt.policies = <<>>
     /\ call.outcome.result = "Ok") =>
        /\ Len(sink) = 1
        /\ sink[1].label = "SMTP-TLS-RPT"
        /\ sink[1].report = call.report
        /\ sink[1].derived.url.host = None

C27_Witness ==
    /\ call.fn = "handle_report"
    /\ call.report.shape = "SMTPTLSRPT"
    /\ call.report.rpt.policies = <<>>
    /\ domain_whitelist = <<"b.com", "a.com">>
    /\ Len(sink) = 1
    /\ sink[1].derived.url.host = None

(***************************************************************************)
(* Claims about the order of a polling cycle (SpecPoller)                  *)
(***************************************************************************)
\* The steps a cycle may take from each position of the loop.
CycleOrder(from, to) ==
    CASE from = "connect" -> to \in {"search", "sleep"}
      [] from = "search" -> to \in {"fetch", "emit", "panicked"}
      [] from = "fetch" -> to \in {"parse", "panicked"}
      [] from = "parse" -> to \in {"parse", "emit", "panicked"}
      [] from = "emit" -> to \in {"emit", "sleep", "panicked"}
      [] from = "sleep" -> to = "connect"
      [] OTHER -> FALSE

\* C26: polling cycles never overlap and at most one mailbox session is
\* open: every step follows the order connect, search, fetch, extract,
\* (emit,) logout, sleep; a session is opened by a connect only, and only
\* when none is open; no session is open during the sleep; and every
\* connect after the first is reached from the sleep of 300 seconds.
C26_CyclesNeverOverlap ==
    [][/\ CycleOrder(imap.pc, imap'.pc)
       /\ (imap'.session /\ ~imap.session) => imap.pc = "connect"
       /\ imap.pc \in {"connect", "sleep"} => ~imap.session
       /\ imap'.pc = "connect" =>
              /\ imap.pc = "sleep"
              /\ ~imap'.session
              /\ imap'.slept = SleepSeconds]_vars

C26_Witness ==
    /\ imap.pc = "connect"
    /\ imap.slept = SleepSeconds
    /\ ~imap.session
    /\ Len(imap.res) = 1
    /\ Len(sink) = 1

\* C29: emission in a polling cycle is all-or-nothing: a report is emitted
\* only after every fetched message of the cycle has been gone through
\* without an error; when the extraction of a message fails nothing of the
\* cycle is emitted, the reports extracted before it included; and when
\* the search matches nothing, no fetch is issued and nothing is emitted.
C29_EmissionAllOrNothing ==
    /\ sink # <<>> =>
           /\ imap.midx > Len(imap.messages)
           /\ imap.failed_at = 0
           /\ imap.error \notin DmarcErrors
           /\ \A i \in 1..Len(sink) : sink[i].report = DMARC(imap.res[i])
    /\ imap.failed_at # 0 => sink = <<>>
    /\ (imap.pc = "sleep" /\ imap.error = "none") => Len(sink) = Len(imap.res)
    /\ imap.search_results = "empty" =>
           /\ imap.pc \notin {"fetch", "parse"}
           /\ imap.messages = <<>>
           /\ sink = <<>>

C29_Witness ==
    /\ imap.pc = "panicked"
    /\ imap.error \in DmarcErrors
    /\ imap.failed_at = 2
    /\ Len(imap.res) = 1
    /\ sink = <<>>

(***************************************************************************)
(* Claims about batches (Spec)                                             *)
(***************************************************************************)
\* C28: within a Reporting-API batch a report the filter drops does not
\* stop the batch: once the loop is over, every report after a dropped one
\* has been handled too, and was emitted if it is admitted and serialised;
\* a report that was emitted stays in the log when a later one fails; and a
\* batch whose reports are all dropped is answered with success.
C28_DropDoesNotStopBatch ==
    /\ \A i \in 1..Len(http.handled) :
           /\ (/\ http.pc \in {"respond", "done"}
               /\ FilterVerdict(http.reports[i]) = "reject"
               /\ i < Len(http.reports))
                  => /\ Len(http.handled) > i
                     /\ (/\ FilterVerdict(http.reports[i + 1]) = "pass"
                         /\ http.handled[i + 1].result = "Ok")
                            => http.handled[i + 1].emitted = 1
           /\ http.handled[i].emitted = 1 =>
                  \E k \in 1..Len(sink) : sink[k].report = http.reports[i]
    /\ (/\ http.pc = "done"
        /\ http.multi
        /\ \A i \in 1..Len(http.reports) : FilterVerdict(http.reports[i]) = "reject")
           => /\ Len(http.handled) = Len(http.reports)
              /\ http.response = "Ok"
              /\ sink = <<>>

\* A batch of two under the whitelist ["a.com"]: the report for b.com was
\* dropped, the report for a.com after it was emitted.
C28_Witness ==
    /\ http.pc = "done"
    /\ http.multi
    /\ domain_whitelist = <<"a.com">>
    /\ Len(http.handled) = 2
    /\ FilterVerdict(http.reports[1]) = "reject"
    /\ http.handled[1].emitted = 0
    /\ http.handled[2].emitted = 1
    /\ Len(sink) = 1
    /\ sink[1].report = http.reports[2]
    /\ http.response = "Ok"

(***************************************************************************)
(* reports/tls_cert_validity.rs: TLSCertificateValidityReport::create      *)
(***************************************************************************)
CRL_MIME_TYPES == {"application/pkix-crl", "application/x-pkcs7-crl"}

\* What one CRL distribution point does when asked: whether the GET
\* completes, the Content-Type header (None when missing), whether the
\* status is a success, whether the body can be read, whether it is a CRL
\* in DER, what the CRL says of the certificate, and whether the
\* revocation date it gives can be converted.
DistPoint(get_ok, content_type, success, bytes_ok, der_ok, status, date, date_ok) ==
    [get_ok |-> get_ok, content_type |-> content_type, success |-> success,
     bytes_ok |-> bytes_ok, der_ok |-> der_ok, status |-> status, date |-> date,
     date_ok |-> date_ok]

DistPoints ==
    {DistPoint(FALSE, None, FALSE, FALSE, FALSE, "NotRevoked", "", FALSE),
     DistPoint(TRUE, None, TRUE, TRUE, TRUE, "Revoked", "2020", TRUE),
     DistPoint(TRUE, Some("application/pkix-crl"), FALSE, TRUE, TRUE, "Revoked", "2020", TRUE),
     DistPoint(TRUE, Some("text/html"), FALSE, TRUE, FALSE, "NotRevoked", "", FALSE),
     DistPoint(TRUE, Some("text/html"), TRUE, TRUE, TRUE, "Revoked", "2020", TRUE),
     DistPoint(TRUE, Some("application/pkix-crl"), TRUE, FALSE, FALSE, "NotRevoked", "", FALSE),
     DistPoint(TRUE, Some("application/pkix-crl"), TRUE, TRUE, FALSE, "NotRevoked", "", FALSE),
     DistPoint(TRUE, Some("application/pkix-crl"), TRUE, TRUE, TRUE, "NotRevoked", "", FALSE),
     DistPoint(TRUE, Some("application/pkix-crl"), TRUE, TRUE, TRUE, "RemoveFromCrl", "2020", TRUE),
     DistPoint(TRUE, Some("application/pkix-crl"), TRUE, TRUE, TRUE, "Revoked", "2020", TRUE),
     DistPoint(TRUE, Some("application/x-pkcs7-crl"), TRUE, TRUE, TRUE, "Revoked", "2021", TRUE),
     DistPoint(TRUE, Some("application/pkix-crl"), TRUE, TRUE, TRUE, "Revoked", "2020", FALSE)}

Checked(result, revoked) == [result |-> result, revoked |-> revoked]

\* (a variant in which a distribution point that cannot be used resets what
\* the earlier ones found)
for_dist_point_clears(revoked, dp) ==
    IF ~dp.get_ok THEN Checked("Err", revoked)
    ELSE IF dp.content_type = None THEN Checked("Panic", revoked)
    ELSE IF dp.success /\ dp.content_type[1] \in CRL_MIME_TYPES
    THEN IF ~dp.bytes_ok THEN Checked("Err", revoked)
         ELSE IF dp.der_ok /\ dp.status = "Revoked"
         THEN IF dp.date_ok THEN Checked("Ok", Some(dp.date))
              ELSE Checked("Err", revoked)
         ELSE Checked("Ok", None)
    ELSE Checked("Ok", None)

\* create, one turn of `for dist_point in &info.crl_distribution_urls`:
\* get(..)? and bytes()? and the date conversion return the Err, the
\* missing Content-Type panics in unwrap(), and revoked is assigned only
\* in the arm CrlStatus::Revoked.
for_dist_point(revoked, dp) ==
    IF ~dp.get_ok THEN Checked("Err", revoked)
    ELSE IF dp.content_type = None THEN Checked("Panic", revoked)
    ELSE IF dp.success /\ dp.content_type[1] \in CRL_MIME_TYPES
    THEN IF ~dp.bytes_ok THEN Checked("Err", revoked)
         ELSE IF dp.der_ok /\ dp.status = "Revoked"
         THEN IF dp.date_ok THEN Checked("Ok", Some(dp.date))
              ELSE Checked("Err", revoked)
         ELSE Checked("Ok", revoked)
    ELSE Checked("Ok", revoked)

RECURSIVE for_dist_point_in(_, _)
for_dist_point_in(points, revoked) ==
    IF points = <<>> THEN Checked("Ok", revoked)
    ELSE LET first == for_dist_point(revoked, Head(points))
         IN  IF first.result # "Ok" THEN first
             ELSE for_dist_point_in(Tail(points), first.revoked)

\* TLSCertificateValidityReport::create once the TLS connection stands:
\* Ok(None) without a peer certificate, Ok(Some(report)) with one, the Err
\* of a distribution point or of the shutdown, or a panic.
create(peer_certificate, points, shutdown_ok) ==
    IF ~peer_certificate
    THEN [result |-> IF shutdown_ok THEN "Ok" ELSE "Err", report |-> None]
    ELSE LET checked == for_dist_point_in(points, None)
         IN  IF checked.result # "Ok" THEN [result |-> checked.result, report |-> None]
             ELSE IF ~shutdown_ok THEN [result |-> "Err", report |-> None]
             ELSE [result |-> "Ok",
                   report |-> Some([revoked |-> checked.revoked # None,
                                    revoked_since |-> checked.revoked])]

Call_create ==
    /\ call.fn = "none"
    /\ \E peer_certificate \in BOOLEAN, shutdown_ok \in BOOLEAN,
          points \in SeqsUpTo(DistPoints, MaxDistPoints) :
           LET res == create(peer_certificate, points, shutdown_ok)
           IN  call' = [NoCall EXCEPT
                          !.fn = "create",
                          !.report = [peer_certificate |-> peer_certificate,
                                      crl_distribution_urls |-> points,
                                      shutdown_ok |-> shutdown_ok],
                          !.outcome = Outcome(res.result, <<>>),
                          !.decoded = [ok |-> res.result = "Ok", value |-> res.report]]
    /\ sink' = <<>>
    /\ UNCHANGED <<domain_whitelist, regexes, http, imap>>

InitCertificate ==
    /\ domain_whitelist = <<>>
    /\ regexes = "absent"
    /\ sink = <<>>
    /\ call = NoCall
    /\ http = HttpIdle
    /\ imap = ImapOff

NextCertificate ==
    \/ Call_create
    \/ Call_return

SpecCertificate == InitCertificate /\ [][NextCertificate]_vars

\* A distribution point that answers with a success status, a CRL MIME
\* type and a parsable CRL that lists the certificate as revoked.
ListsAsRevoked(dp) ==
    /\ dp.get_ok
    /\ dp.content_type # None
    /\ dp.content_type[1] \in {"application/pkix-crl", "application/x-pkcs7-crl"}
    /\ dp.success
    /\ dp.bytes_ok
    /\ dp.der_ok
    /\ dp.status = "Revoked"

\* C30: in every report create produces, revoked is true exactly when
\* revoked_since is present, and both hold exactly when at least one CRL
\* distribution point of the certificate answered successfully with a CRL
\* MIME type and a parsable CRL listing the certificate as revoked; the
\* other distribution points neither set nor clear it.
C30_RevokedIffListed ==
    (call.fn = "create" /\ call.decoded.ok /\ call.decoded.value # None) =>
        LET rpt == call.decoded.value[1]
            points == call.report.crl_distribution_urls
        IN  /\ rpt.revoked <=> rpt.revoked_since # None
            /\ rpt.revoked <=> \E i \in 1..Len(points) : ListsAsRevoked(points[i])

\* The first distribution point lists the certificate, the second answers
\* with a failure status: the report says revoked.
C30_Witness ==
    /\ call.fn = "create"
    /\ call.decoded.ok
    /\ call.decoded.value # None
    /\ Len(call.report.crl_distribution_urls) = 2
    /\ ListsAsRevoked(call.report.crl_distribution_urls[1])
    /\ ~call.report.crl_distribution_urls[2].success
    /\ call.decoded.value[1].revoked
    /\ call.decoded.value[1].revoked_since = Some("2020")

================================================================================
